---- MODULE Spec2Model ----
(***************************************************************************)
(* JSON escape / unescape tool (src/script.js).                            *)
(*                                                                         *)
(* A JavaScript string is modelled as a sequence of UTF-16 code units      *)
(* (integers 0..65535).  The two text fields, the copy button's label,     *)
(* the clipboard writes in flight and the label-restore timers are the     *)
(* state; every click handler and every asynchronous callback is one       *)
(* action.                                                                 *)
(***************************************************************************)
EXTENDS Integers, Sequences, FiniteSets, TLC

VARIABLES
    jsonInput,      \* jsonInput.value: the input textarea
    jsonOutput,     \* jsonOutput.value: the output textarea
    copyBtnText,    \* copyBtn.textContent
    pendingWrites,  \* navigator.clipboard.writeText promises not yet settled (their texts)
    timers,         \* setTimeout callbacks not yet run (the originalText each captured), in order
    clipboard,      \* the system clipboard's text
    last,           \* the handler that last ran: its name, its local argument, the branch it took
    origin,         \* history: the raw text whose escaped form the user moved into the input field
    pastes          \* number of times the user moved the output into the input

vars == <<jsonInput, jsonOutput, copyBtnText, pendingWrites, timers, clipboard,
          last, origin, pastes>>

-----------------------------------------------------------------------------
(* Bounds of the model. *)

\* Number of fragments the user's typed text is built from.
MaxFrags == 2
\* Number of times the user moves the output back into the input field.
MaxPastes == 1
\* Clipboard writes and restore timers outstanding at once.
MaxPending == 2
\* Length of the longest output the user moves back into the input field.
MaxPasteLen == 24

-----------------------------------------------------------------------------
(* Code units named by the source. *)

QUOTE == 34
BACKSLASH == 92
SLASH == 47
BACKSPACE == 8
FORMFEED == 12
NEWLINE == 10
CARRIAGE_RETURN == 13
TAB == 9
MinPrintable == 32
MaxPrintable == 126
HexRadix == 16
LetterU == 117

\* '0000'
ZeroPad == <<48, 48, 48, 48>>

\* "Error during escape: "
EscapeErrorPrefix ==
    <<69, 114, 114, 111, 114, 32, 100, 117, 114, 105, 110, 103, 32, 101, 115,
      99, 97, 112, 101, 58, 32>>

\* "ERROR: Invalid string to unescape. Please check the format."
UnescapeErrorPrefix ==
    <<69, 82, 82, 79, 82, 58, 32, 73, 110, 118, 97, 108, 105, 100, 32, 115,
      116, 114, 105, 110, 103, 32, 116, 111, 32, 117, 110, 101, 115, 99, 97,
      112, 101, 46, 32, 80, 108, 101, 97, 115, 101, 32, 99, 104, 101, 99, 107,
      32, 116, 104, 101, 32, 102, 111, 114, 109, 97, 116, 46>>

\* "\n\nDetails: "
DetailsLabel == <<10, 10, 68, 101, 116, 97, 105, 108, 115, 58, 32>>

-----------------------------------------------------------------------------
(* escapeJsonString *)

\* Number.prototype.toString(16): lowercase digits, no leading zeros.
HexDigitLower(d) == IF d < 10 THEN 48 + d ELSE 97 + (d - 10)

RECURSIVE ToString16(_)
ToString16(n) ==
    IF n < HexRadix
    THEN <<HexDigitLower(n)>>
    ELSE ToString16(n \div HexRadix) \o <<HexDigitLower(n % HexRadix)>>

\* String.prototype.toUpperCase on the characters toString(16) can produce.
ToUpperCase(s) ==
    [i \in 1..Len(s) |-> IF s[i] >= 97 /\ s[i] <= 122 THEN s[i] - 32 ELSE s[i]]

\* String.prototype.substring(start) for start >= 0.
Substring(s, start) ==
    IF start >= Len(s) THEN <<>> ELSE SubSeq(s, start + 1, Len(s))

\* Variant: the hexadecimal digits are not padded to four.
EscapeDefaultUnpadded(charCode) ==
    IF charCode < MinPrintable \/ charCode > MaxPrintable
    THEN <<BACKSLASH, LetterU>> \o ToUpperCase(ToString16(charCode))
    ELSE <<charCode>>

\* Variant: the upper limit of the printable range is off by one (DEL passes).
EscapeDefaultKeepsDel(charCode) ==
    IF charCode < MinPrintable \/ charCode > MaxPrintable + 1
    THEN LET hexCode == ToUpperCase(ToString16(charCode))
         IN  <<BACKSLASH, LetterU>> \o Substring(ZeroPad, Len(hexCode)) \o hexCode
    ELSE <<charCode>>

\* The default branch of the switch: \uXXXX or the character itself.
EscapeDefault(charCode) ==
    IF charCode < MinPrintable \/ charCode > MaxPrintable
    THEN LET hexCode == ToUpperCase(ToString16(charCode))
         IN  <<BACKSLASH, LetterU>> \o Substring(ZeroPad, Len(hexCode)) \o hexCode
    ELSE <<charCode>>

\* Variant: the switch has no case for the backslash.
EscapeCharNoBackslash(currentChar) ==
    CASE currentChar = QUOTE           -> <<BACKSLASH, QUOTE>>
      [] currentChar = SLASH           -> <<BACKSLASH, SLASH>>
      [] currentChar = BACKSPACE       -> <<BACKSLASH, 98>>
      [] currentChar = FORMFEED        -> <<BACKSLASH, 102>>
      [] currentChar = NEWLINE         -> <<BACKSLASH, 110>>
      [] currentChar = CARRIAGE_RETURN -> <<BACKSLASH, 114>>
      [] currentChar = TAB             -> <<BACKSLASH, 116>>
      [] OTHER                         -> EscapeDefault(currentChar)

\* One iteration of the loop: what is appended for currentChar.
EscapeChar(currentChar) ==
    CASE currentChar = QUOTE           -> <<BACKSLASH, QUOTE>>
      [] currentChar = BACKSLASH       -> <<BACKSLASH, BACKSLASH>>
      [] currentChar = SLASH           -> <<BACKSLASH, SLASH>>
      [] currentChar = BACKSPACE       -> <<BACKSLASH, 98>>
      [] currentChar = FORMFEED        -> <<BACKSLASH, 102>>
      [] currentChar = NEWLINE         -> <<BACKSLASH, 110>>
      [] currentChar = CARRIAGE_RETURN -> <<BACKSLASH, 114>>
      [] currentChar = TAB             -> <<BACKSLASH, 116>>
      [] OTHER                         -> EscapeDefault(currentChar)

\* Variant: the loop walks code points (as for...of does): a surrogate pair is
\* one character, escaped as \u and the digits of its code point.
RECURSIVE EscapeLoopByCodePoint(_, _, _)
EscapeLoopByCodePoint(inputString, index, escapedResult) ==
    IF index >= Len(inputString) THEN escapedResult
    ELSE IF /\ index + 2 <= Len(inputString)
            /\ inputString[index + 1] >= 55296 /\ inputString[index + 1] <= 56319
            /\ inputString[index + 2] >= 56320 /\ inputString[index + 2] <= 57343
    THEN EscapeLoopByCodePoint(inputString, index + 2,
            escapedResult \o EscapeDefault(65536 + (inputString[index + 1] - 55296) * 1024
                                                 + (inputString[index + 2] - 56320)))
    ELSE EscapeLoopByCodePoint(inputString, index + 1,
            escapedResult \o EscapeChar(inputString[index + 1]))

\* The for loop: index is the 0-based loop index, escapedResult the accumulator.
RECURSIVE EscapeLoop(_, _, _)
EscapeLoop(inputString, index, escapedResult) ==
    IF index < Len(inputString)
    THEN EscapeLoop(inputString, index + 1,
                    escapedResult \o EscapeChar(inputString[index + 1]))
    ELSE escapedResult

\* Variant: the text is first checked to be well-formed UTF-16, and an unpaired
\* surrogate throws "URI malformed" (as encodeURIComponent does).
escapeJsonStringStrict(inputString) ==
    IF \E i \in 1..Len(inputString) :
          \/ /\ inputString[i] >= 55296 /\ inputString[i] <= 56319
             /\ ~(i < Len(inputString) /\ inputString[i + 1] >= 56320
                                       /\ inputString[i + 1] <= 57343)
          \/ /\ inputString[i] >= 56320 /\ inputString[i] <= 57343
             /\ ~(i > 1 /\ inputString[i - 1] >= 55296 /\ inputString[i - 1] <= 56319)
    THEN [threw |-> TRUE,
          message |-> <<85, 82, 73, 32, 109, 97, 108, 102, 111, 114, 109, 101, 100>>,
          value |-> <<>>]
    ELSE [threw |-> FALSE, message |-> <<>>, value |-> EscapeLoop(inputString, 0, <<>>)]

\* The call's outcome: the returned string, or the exception it threw.
\* No operation of the function throws.
escapeJsonString(inputString) ==
    [threw |-> FALSE, message |-> <<>>, value |-> EscapeLoop(inputString, 0, <<>>)]

-----------------------------------------------------------------------------
(* JSON.parse of `"${escapedString}"` *)

\* Variant: the escaped content is parsed as it is, without the quotes.
WrapNothing(escapedString) == escapedString

\* The template literal `"${escapedString}"`.
Wrap(escapedString) == <<QUOTE>> \o escapedString \o <<QUOTE>>

\* JSON whitespace: space, tab, line feed, carriage return.
IsJsonWhitespace(c) == c \in {32, TAB, NEWLINE, CARRIAGE_RETURN}

\* The character after a backslash -> the code unit it denotes.
NamedEscapes ==
    { <<QUOTE, QUOTE>>, <<BACKSLASH, BACKSLASH>>, <<SLASH, SLASH>>,
      <<98, BACKSPACE>>, <<102, FORMFEED>>, <<110, NEWLINE>>,
      <<114, CARRIAGE_RETURN>>, <<116, TAB>> }

\* A hexadecimal digit's value (either case), or -1.
HexValue(c) ==
    IF c >= 48 /\ c <= 57 THEN c - 48
    ELSE IF c >= 65 /\ c <= 70 THEN c - 55
    ELSE IF c >= 97 /\ c <= 102 THEN c - 87
    ELSE -1

\* The messages of the host's SyntaxError, by kind of error.  The wording is the
\* host's; these are V8's, without the position.
ParserMessage(kind) ==
    CASE kind = "escape" ->
            <<66, 97, 100, 32, 101, 115, 99, 97, 112, 101, 100, 32, 99, 104,
              97, 114, 97, 99, 116, 101, 114>>
      [] kind = "control" ->
            <<66, 97, 100, 32, 99, 111, 110, 116, 114, 111, 108, 32, 99, 104,
              97, 114, 97, 99, 116, 101, 114>>
      [] kind = "unterminated" ->
            <<85, 110, 116, 101, 114, 109, 105, 110, 97, 116, 101, 100, 32,
              115, 116, 114, 105, 110, 103>>
      [] kind = "trailing" ->
            <<85, 110, 101, 120, 112, 101, 99, 116, 101, 100, 32, 110, 111,
              110, 45, 119, 104, 105, 116, 101, 115, 112, 97, 99, 101>>
      [] kind = "unicode" ->
            <<66, 97, 100, 32, 85, 110, 105, 99, 111, 100, 101, 32, 101, 115,
              99, 97, 112, 101>>
      [] OTHER ->
            <<85, 110, 101, 120, 112, 101, 99, 116, 101, 100, 32, 116, 111,
              107, 101, 110>>

ParseOk(value) == [ok |-> TRUE, value |-> value, message |-> <<>>]
ParseError(kind) == [ok |-> FALSE, value |-> <<>>, message |-> ParserMessage(kind)]

\* After the closing quote only whitespace may follow.
RECURSIVE OnlyWhitespaceFrom(_, _)
OnlyWhitespaceFrom(text, i) ==
    IF i > Len(text) THEN TRUE
    ELSE IsJsonWhitespace(text[i]) /\ OnlyWhitespaceFrom(text, i + 1)

\* The escape sequence that starts at the backslash at position i: its length and
\* the code unit it denotes, or the kind of error it is.
EscapeAt(text, i) ==
    IF i + 1 > Len(text) THEN [len |-> 0, unit |-> 0, kind |-> "unterminated"]
    ELSE LET e == text[i + 1] IN
      IF \E p \in NamedEscapes : p[1] = e
      THEN [len |-> 2, unit |-> (CHOOSE p \in NamedEscapes : p[1] = e)[2], kind |-> ""]
      ELSE IF e = LetterU
      THEN IF i + 5 <= Len(text) /\ \A k \in 2..5 : HexValue(text[i + k]) >= 0
           THEN [len |-> 6,
                 unit |-> 4096 * HexValue(text[i + 2]) + 256 * HexValue(text[i + 3])
                          + 16 * HexValue(text[i + 4]) + HexValue(text[i + 5]),
                 kind |-> ""]
           ELSE [len |-> 0, unit |-> 0, kind |-> "unicode"]
      ELSE [len |-> 0, unit |-> 0, kind |-> "escape"]

\* The string literal's characters from position i on; value is what was decoded
\* so far.  code is the character at i (-1 at the end of the text).
RECURSIVE ParseString(_, _, _)
ParseString(text, i, value) ==
    LET code == IF i > Len(text) THEN -1 ELSE text[i] IN
    CASE code >= MinPrintable /\ code # QUOTE /\ code # BACKSLASH ->
            ParseString(text, i + 1, Append(value, code))
      [] code = BACKSLASH ->
            IF EscapeAt(text, i).len = 0
            THEN ParseError(EscapeAt(text, i).kind)
            ELSE ParseString(text, i + EscapeAt(text, i).len,
                             Append(value, EscapeAt(text, i).unit))
      [] code = QUOTE ->
            IF OnlyWhitespaceFrom(text, i + 1) THEN ParseOk(value)
            ELSE ParseError("trailing")
      [] code = -1 -> ParseError("unterminated")
      [] OTHER -> ParseError("control")

\* The position of the first character that is not whitespace (Len + 1 if none).
RECURSIVE SkipWhitespace(_, _)
SkipWhitespace(text, i) ==
    IF i <= Len(text) /\ IsJsonWhitespace(text[i]) THEN SkipWhitespace(text, i + 1) ELSE i

\* JSON.parse(text) for a text whose value is a string literal, as every text the
\* handler builds is (it starts with a quote); any other text is a syntax error here.
JSONParse(text) ==
    LET start == SkipWhitespace(text, 1) IN
    IF start <= Len(text) /\ text[start] = QUOTE
    THEN ParseString(text, start + 1, <<>>)
    ELSE ParseError("token")

\* Variant: the catch branch writes the fixed sentence only.
UnescapeErrorTextNoDetails(message) == UnescapeErrorPrefix

\* The text of the catch branch of handleUnescape.
UnescapeErrorText(message) == UnescapeErrorPrefix \o DetailsLabel \o message

-----------------------------------------------------------------------------
(* The texts the user types. *)

\* Pieces of typed text: the characters of the escape table, characters on both
\* sides of the printable range, non-ASCII characters, a surrogate pair's two
\* halves, letters that follow a backslash in an escape, and \u sequences.
Fragments ==
    { <<QUOTE>>, <<BACKSLASH>>, <<SLASH>>, <<BACKSPACE>>, <<FORMFEED>>,
      <<NEWLINE>>, <<CARRIAGE_RETURN>>, <<TAB>>,
      <<0>>, <<31>>, <<32>>, <<97>>, <<110>>, <<113>>, <<126>>, <<127>>,
      <<233>>, <<55357>>, <<56832>>, <<65535>>,
      <<92, 117, 48, 48, 101, 57>>,      \* é
      <<92, 117, 48, 48, 71, 57>>,       \* \u00G9
      <<92, 117, 49, 50>> }              \* \u12

RECURSIVE TextsOf(_)
TextsOf(n) ==
    IF n = 0 THEN { <<>> }
    ELSE LET shorter == TextsOf(n - 1)
         IN  shorter \cup { s \o f : s \in shorter, f \in Fragments }

TypedTexts == TextsOf(MaxFrags)

\* The label of the copy button in the page.
InitialLabel == "Copy"

NoCall == [op |-> "none", arg |-> <<>>, branch |-> "none", message |-> <<>>]
NoOrigin == [set |-> FALSE, text |-> <<>>]

Init ==
    /\ jsonInput \in TypedTexts
    /\ jsonOutput = <<>>
    /\ copyBtnText = InitialLabel
    /\ pendingWrites = <<>>
    /\ timers = <<>>
    /\ clipboard = <<>>
    /\ last = NoCall
    /\ origin = NoOrigin
    /\ pastes = 0

-----------------------------------------------------------------------------
(* The click handlers of the two transforms and of the clear button. *)

uiVars == <<copyBtnText, pendingWrites, timers, clipboard>>

\* Variant: the fast path returns without emptying the output field.
handleEscapeStale ==
    LET rawString == jsonInput IN
    /\ IF rawString = <<>>
       THEN /\ jsonOutput' = jsonOutput
            /\ last' = [op |-> "escape", arg |-> rawString, branch |-> "empty",
                        message |-> <<>>]
       ELSE /\ jsonOutput' = escapeJsonString(rawString).value
            /\ last' = [op |-> "escape", arg |-> rawString, branch |-> "try",
                        message |-> <<>>]
    /\ UNCHANGED <<jsonInput, origin, pastes, uiVars>>

handleEscape ==
    LET rawString == jsonInput IN
    /\ IF rawString = <<>>
       THEN /\ jsonOutput' = <<>>
            /\ last' = [op |-> "escape", arg |-> rawString, branch |-> "empty",
                        message |-> <<>>]
       ELSE LET r == escapeJsonString(rawString) IN
            IF r.threw
            THEN /\ jsonOutput' = EscapeErrorPrefix \o r.message
                 /\ last' = [op |-> "escape", arg |-> rawString, branch |-> "catch",
                             message |-> r.message]
            ELSE /\ jsonOutput' = r.value
                 /\ last' = [op |-> "escape", arg |-> rawString, branch |-> "try",
                             message |-> <<>>]
    /\ UNCHANGED <<jsonInput, origin, pastes, uiVars>>

handleUnescape ==
    LET escapedString == jsonInput IN
    /\ IF escapedString = <<>>
       THEN /\ jsonOutput' = <<>>
            /\ last' = [op |-> "unescape", arg |-> escapedString, branch |-> "empty",
                        message |-> <<>>]
       ELSE LET r == JSONParse(Wrap(escapedString)) IN
            IF r.ok
            THEN /\ jsonOutput' = r.value
                 /\ last' = [op |-> "unescape", arg |-> escapedString, branch |-> "try",
                             message |-> <<>>]
            ELSE /\ jsonOutput' = UnescapeErrorText(r.message)
                 /\ last' = [op |-> "unescape", arg |-> escapedString, branch |-> "catch",
                             message |-> r.message]
    /\ UNCHANGED <<jsonInput, origin, pastes, uiVars>>

handleClear ==
    /\ jsonInput' = <<>>
    /\ jsonOutput' = <<>>
    /\ last' = [op |-> "clear", arg |-> <<>>, branch |-> "none", message |-> <<>>]
    /\ origin' = NoOrigin
    /\ UNCHANGED <<pastes, uiVars>>

\* The user selects the output field's text and puts it into the input field.
PasteOutput ==
    /\ pastes < MaxPastes
    /\ Len(jsonOutput) <= MaxPasteLen
    /\ pastes' = pastes + 1
    /\ jsonInput' = jsonOutput
    /\ origin' = IF last.op = "escape" /\ last.branch # "catch"
                 THEN [set |-> TRUE, text |-> last.arg]
                 ELSE NoOrigin
    /\ last' = [op |-> "paste", arg |-> <<>>, branch |-> "none", message |-> <<>>]
    /\ UNCHANGED <<jsonOutput, uiVars>>

\* The user deletes the text of the input field.
EraseInput ==
    /\ jsonInput # <<>>
    /\ jsonInput' = <<>>
    /\ origin' = NoOrigin
    /\ last' = [op |-> "edit", arg |-> <<>>, branch |-> "none", message |-> <<>>]
    /\ UNCHANGED <<jsonOutput, pastes, uiVars>>

Next ==
    \/ handleEscape
    \/ handleUnescape
    \/ handleClear
    \/ PasteOutput
    \/ EraseInput

Spec == Init /\ [][Next]_vars

-----------------------------------------------------------------------------
(* The copy button: the click handler, the promise's two callbacks, the timer. *)

textVars == <<jsonInput, jsonOutput, last, origin, pastes>>

RemoveAt(s, i) == SubSeq(s, 1, i - 1) \o SubSeq(s, i + 1, Len(s))

\* Variant: the click handler reads the input field.
handleCopyOfInput ==
    LET resultText == jsonInput IN
    /\ IF resultText = <<>>
       THEN UNCHANGED pendingWrites
       ELSE /\ Len(pendingWrites) + Len(timers) < MaxPending
            /\ pendingWrites' = Append(pendingWrites, resultText)
    /\ UNCHANGED <<textVars, copyBtnText, timers, clipboard>>

\* The click handler: returns at once on an empty output field, else starts
\* navigator.clipboard.writeText(resultText).
handleCopy ==
    LET resultText == jsonOutput IN
    /\ IF resultText = <<>>
       THEN UNCHANGED pendingWrites
       ELSE /\ Len(pendingWrites) + Len(timers) < MaxPending
            /\ pendingWrites' = Append(pendingWrites, resultText)
    /\ UNCHANGED <<textVars, copyBtnText, timers, clipboard>>

\* The write of pendingWrites[i] succeeds and the .then callback runs: it reads
\* the label into originalText, shows 'Copied!' and starts the 2000 ms timer.
WriteSucceeds(i) ==
    /\ i \in 1..Len(pendingWrites)
    /\ clipboard' = pendingWrites[i]
    /\ pendingWrites' = RemoveAt(pendingWrites, i)
    /\ LET originalText == copyBtnText IN
       /\ copyBtnText' = "Copied!"
       /\ timers' = Append(timers, originalText)
    /\ UNCHANGED textVars

\* The write of pendingWrites[i] fails and the .catch callback logs the error.
WriteFails(i) ==
    /\ i \in 1..Len(pendingWrites)
    /\ pendingWrites' = RemoveAt(pendingWrites, i)
    /\ UNCHANGED <<textVars, copyBtnText, timers, clipboard>>

\* The oldest timer fires (all have the same delay): the label it captured is put back.
TimerFires ==
    /\ timers # <<>>
    /\ copyBtnText' = Head(timers)
    /\ timers' = Tail(timers)
    /\ UNCHANGED <<textVars, pendingWrites, clipboard>>

\* The texts typed in the page when the copy button is exercised.
PageTexts == { <<>>, <<97, 10>>, <<92, 113>> }

InitPage ==
    /\ jsonInput \in PageTexts
    /\ jsonOutput = <<>>
    /\ copyBtnText = InitialLabel
    /\ pendingWrites = <<>>
    /\ timers = <<>>
    /\ clipboard = <<>>
    /\ last = NoCall
    /\ origin = NoOrigin
    /\ pastes = 0

NextPage ==
    \/ handleEscape
    \/ handleUnescape
    \/ handleClear
    \/ PasteOutput
    \/ EraseInput
    \/ handleCopy
    \/ \E i \in 1..Len(pendingWrites) : WriteSucceeds(i)
    \/ \E i \in 1..Len(pendingWrites) : WriteFails(i)
    \/ TimerFires

SpecPage == InitPage /\ [][NextPage]_vars

-----------------------------------------------------------------------------
(* Vocabulary of the properties: the JSON string grammar and the escape table, *)
(* stated on their own terms.                                                  *)

\* "0123456789ABCDEF" and "0123456789abcdef"
UpperHexDigits == <<48, 49, 50, 51, 52, 53, 54, 55, 56, 57, 65, 66, 67, 68, 69, 70>>
LowerHexDigits == <<48, 49, 50, 51, 52, 53, 54, 55, 56, 57, 97, 98, 99, 100, 101, 102>>

IsUpperHex(c) == \E k \in 1..16 : UpperHexDigits[k] = c
IsAnyHex(c) == \E k \in 1..16 : UpperHexDigits[k] = c \/ LowerHexDigits[k] = c
DigitValue(c) == (CHOOSE k \in 1..16 : UpperHexDigits[k] = c \/ LowerHexDigits[k] = c) - 1

\* The number four hexadecimal digits denote.
FourDigitValue(d) ==
    ((DigitValue(d[1]) * 16 + DigitValue(d[2])) * 16 + DigitValue(d[3])) * 16 + DigitValue(d[4])

\* seg is backslash, u and exactly four uppercase digits whose value is c.
IsUnicodeEscapeOf(seg, c) ==
    /\ Len(seg) = 6
    /\ seg[1] = 92 /\ seg[2] = 117
    /\ \A k \in 3..6 : IsUpperHex(seg[k])
    /\ FourDigitValue(SubSeq(seg, 3, 6)) = c

\* The characters with a two-character escape, and the letter of each.
TwoCharEscapes == { <<34, 34>>, <<92, 92>>, <<47, 47>>, <<8, 98>>, <<12, 102>>,
                    <<10, 110>>, <<13, 114>>, <<9, 116>> }
HasTwoCharEscape(c) == \E p \in TwoCharEscapes : p[1] = c

\* The length of the table's image of code unit c.
TableImageLen(c) ==
    IF HasTwoCharEscape(c) THEN 2 ELSE IF c < 32 \/ c > 126 THEN 6 ELSE 1

\* seg is the table's image of code unit c.
IsTableImage(seg, c) ==
    IF HasTwoCharEscape(c) THEN \E p \in TwoCharEscapes : p[1] = c /\ seg = <<92, p[2]>>
    ELSE IF c < 32 \/ c > 126 THEN IsUnicodeEscapeOf(seg, c)
    ELSE seg = <<c>>

\* out, from position pos on, is the images of inp[k], inp[k+1], ... in order.
RECURSIVE IsTableConcat(_, _, _, _)
IsTableConcat(out, pos, inp, k) ==
    IF k > Len(inp) THEN pos = Len(out) + 1
    ELSE LET n == TableImageLen(inp[k]) IN
         /\ pos + n - 1 <= Len(out)
         /\ IsTableImage(SubSeq(out, pos, pos + n - 1), inp[k])
         /\ IsTableConcat(out, pos + n, inp, k + 1)

\* s is made of printable ASCII characters that the table passes through.
IsPlainAscii(s) ==
    \A i \in 1..Len(s) : s[i] >= 32 /\ s[i] <= 126 /\ ~HasTwoCharEscape(s[i])

\* The length of the JSON string character (a plain character or an escape) that
\* starts at position i of s; 0 if none does.
CharLenAt(s, i) ==
    IF s[i] = 92
    THEN IF i + 1 <= Len(s) /\ (\E p \in TwoCharEscapes : p[2] = s[i + 1]) THEN 2
         ELSE IF i + 5 <= Len(s) /\ s[i + 1] = 117 /\ (\A k \in 2..5 : IsAnyHex(s[i + k])) THEN 6
         ELSE 0
    ELSE IF s[i] = 34 \/ s[i] < 32 THEN 0
    ELSE 1

\* The code unit that character denotes.
CharValueAt(s, i) ==
    IF s[i] # 92 THEN s[i]
    ELSE IF s[i + 1] = 117 THEN FourDigitValue(SubSeq(s, i + 2, i + 5))
    ELSE (CHOOSE p \in TwoCharEscapes : p[2] = s[i + 1])[1]

\* s, from position i on, is a valid JSON string body.
RECURSIVE IsStringBody(_, _)
IsStringBody(s, i) ==
    IF i > Len(s) THEN TRUE
    ELSE CharLenAt(s, i) > 0 /\ IsStringBody(s, i + CharLenAt(s, i))

\* The text a valid body denotes.
RECURSIVE BodyValue(_, _)
BodyValue(s, i) ==
    IF i > Len(s) THEN <<>>
    ELSE <<CharValueAt(s, i)>> \o BodyValue(s, i + CharLenAt(s, i))

\* Every backslash of s starts one of the escape table's sequences (uppercase
\* digits after u) and no double quote stands outside one.
RECURSIVE OnlyTableEscapes(_, _)
OnlyTableEscapes(s, i) ==
    IF i > Len(s) THEN TRUE
    ELSE IF s[i] = 92
    THEN \/ /\ i + 1 <= Len(s)
            /\ \E p \in TwoCharEscapes : p[2] = s[i + 1]
            /\ OnlyTableEscapes(s, i + 2)
         \/ /\ i + 5 <= Len(s)
            /\ s[i + 1] = 117
            /\ \A k \in 2..5 : IsUpperHex(s[i + k])
            /\ OnlyTableEscapes(s, i + 6)
    ELSE s[i] # 34 /\ OnlyTableEscapes(s, i + 1)

IsHighSurrogate(c) == c >= 55296 /\ c <= 56319
IsLowSurrogate(c) == c >= 56320 /\ c <= 57343

NoUnpairedSurrogate(s) ==
    \A i \in 1..Len(s) :
        /\ IsHighSurrogate(s[i]) => (i < Len(s) /\ IsLowSurrogate(s[i + 1]))
        /\ IsLowSurrogate(s[i]) => (i > 1 /\ IsHighSurrogate(s[i - 1]))

IsSurrogatePair(s) == Len(s) = 2 /\ IsHighSurrogate(s[1]) /\ IsLowSurrogate(s[2])

\* The input field holds the escaped form of origin.text and handleUnescape ran on it.
UnescapedAnEscape == last.op = "unescape" /\ origin.set /\ jsonInput = last.arg

-----------------------------------------------------------------------------
(* Properties. *)

\* C1: round trip.  When the escaped form of a text s without unpaired
\* surrogates (the empty text included) is put into the input field and
\* unescaped, parsing succeeds and the output field holds exactly s.
RoundTrip ==
    (UnescapedAnEscape /\ NoUnpairedSurrogate(origin.text))
        => /\ last.branch # "catch"
           /\ jsonOutput = origin.text

RoundTripWitness ==
    /\ UnescapedAnEscape
    /\ origin.text = <<34, 233>>
    /\ jsonInput = <<92, 34, 92, 117, 48, 48, 69, 57>>
    /\ jsonOutput = origin.text

\* C2: the output of escapeJsonString is the in-order concatenation of the
\* table's images of the input's code units (two-character escapes, \u plus
\* four uppercase zero-padded digits for codes < 32 or > 126, the character
\* itself otherwise); plain printable ASCII text is returned unchanged.
EscapeFollowsTable ==
    (last.op = "escape" /\ last.arg # <<>>)
        => /\ IsTableConcat(jsonOutput, 1, last.arg, 1)
           /\ IsPlainAscii(last.arg) => jsonOutput = last.arg

EscapeFollowsTableWitness ==
    /\ last.op = "escape"
    /\ last.arg = <<10, 233>>
    /\ jsonOutput = <<92, 110, 92, 117, 48, 48, 69, 57>>

\* C3: every character of an escape's output has a code in 32..126, no quote
\* or backslash stands outside an escape sequence of the table, and the output
\* between double quotes parses as a JSON string literal.
EscapeOutputIsAsciiBody ==
    last.op = "escape"
        => /\ \A i \in 1..Len(jsonOutput) : jsonOutput[i] >= 32 /\ jsonOutput[i] <= 126
           /\ OnlyTableEscapes(jsonOutput, 1)
           /\ JSONParse(<<34>> \o jsonOutput \o <<34>>).ok

EscapeOutputIsAsciiBodyWitness ==
    /\ last.op = "escape"
    /\ last.arg = <<34, 127>>
    /\ jsonOutput = <<92, 34, 92, 117, 48, 48, 55, 70>>

\* C4: unescape of a non-empty input fails exactly when the input is not a
\* valid JSON string body (bad escape, raw control character, trailing
\* backslash, bad \u digits, stray quote), and a valid body is decoded to the
\* text it denotes.
UnescapeFailsIffInvalid ==
    (last.op = "unescape" /\ last.arg # <<>>)
        => /\ last.branch = "catch" <=> ~IsStringBody(last.arg, 1)
           /\ last.branch # "catch" => jsonOutput = BodyValue(last.arg, 1)

UnescapeFailsIffInvalidWitness ==
    /\ last.op = "unescape"
    /\ last.arg = <<97, 34>>
    /\ last.branch = "catch"

\* C5: when unescape fails on a non-empty input, the output field holds the
\* prefix "ERROR: Invalid string to unescape. Please check the format.", then
\* the "Details: " label and the parser's message, nothing of the decoded
\* text; the input field is as it was.
UnescapeErrorIsReported ==
    (last.op = "unescape" /\ last.arg # <<>> /\ ~JSONParse(<<34>> \o last.arg \o <<34>>).ok)
        => /\ last.message = JSONParse(<<34>> \o last.arg \o <<34>>).message
           /\ last.message # <<>>
           /\ jsonOutput = UnescapeErrorPrefix \o DetailsLabel \o last.message
           /\ jsonInput = last.arg

UnescapeErrorIsReportedWitness ==
    /\ last.op = "unescape"
    /\ last.arg = <<92, 113>>
    /\ jsonInput = <<92, 113>>
    /\ last.branch = "catch"
    /\ SubSeq(jsonOutput, 1, Len(UnescapeErrorPrefix)) = UnescapeErrorPrefix

\* C6: escape never fails: whatever the input (unpaired surrogates included),
\* escapeJsonString returns a value, handleEscape does not take its catch
\* branch and the output field holds the returned value.
EscapeNeverFails ==
    last.op = "escape"
        => /\ last.branch # "catch"
           /\ ~escapeJsonString(last.arg).threw
           /\ jsonOutput = escapeJsonString(last.arg).value

EscapeNeverFailsWitness ==
    /\ last.op = "escape"
    /\ last.arg = <<55357>>
    /\ last.branch = "try"

\* C7: with an empty input field both handlers leave the output field empty,
\* by the fast path, and that is what the transforms give on the empty text.
EmptyInEmptyOut ==
    (last.op \in {"escape", "unescape"} /\ last.arg = <<>>)
        => /\ jsonOutput = <<>>
           /\ last.branch = "empty"
           /\ escapeJsonString(<<>>) = [threw |-> FALSE, message |-> <<>>, value |-> <<>>]
           /\ JSONParse(Wrap(<<>>)) = ParseOk(<<>>)

EmptyInEmptyOutWitness ==
    /\ last.op = "escape"
    /\ last.arg = <<>>
    /\ jsonOutput = <<>>
    /\ jsonInput = <<>>
    /\ pastes > 0

\* C8: a surrogate pair is escaped as two \u escapes, one per half and in
\* order (12 characters), and unescaping them gives the pair back.
SurrogatePairPerCodeUnit ==
    /\ (last.op = "escape" /\ IsSurrogatePair(last.arg))
          => /\ Len(jsonOutput) = 12
             /\ IsUnicodeEscapeOf(SubSeq(jsonOutput, 1, 6), last.arg[1])
             /\ IsUnicodeEscapeOf(SubSeq(jsonOutput, 7, 12), last.arg[2])
    /\ (UnescapedAnEscape /\ IsSurrogatePair(origin.text))
          => /\ Len(jsonInput) = 12
             /\ jsonOutput = origin.text

SurrogatePairPerCodeUnitWitness ==
    /\ UnescapedAnEscape
    /\ origin.text = <<55357, 56832>>
    /\ jsonInput = <<92, 117, 68, 56, 51, 68, 92, 117, 68, 69, 48, 48>>
    /\ jsonOutput = origin.text

\* C9: the clipboard callbacks and the timer never change the two text
\* fields, a copy click hands the clipboard the output field's value of that
\* moment, and a copy click on an empty output field starts no write.
CopyStep == handleCopy
CallbackStep ==
    \/ \E i \in 1..Len(pendingWrites) : WriteSucceeds(i) \/ WriteFails(i)
    \/ TimerFires

CopyIsIndependent ==
    [][ /\ CallbackStep => (jsonInput' = jsonInput /\ jsonOutput' = jsonOutput)
        /\ (\E i \in 1..Len(pendingWrites) : WriteSucceeds(i))
              => \E i \in 1..Len(pendingWrites) : clipboard' = pendingWrites[i]
        /\ CopyStep =>
              /\ jsonInput' = jsonInput /\ jsonOutput' = jsonOutput
              /\ IF jsonOutput = <<>>
                 THEN pendingWrites' = pendingWrites
                 ELSE pendingWrites' = pendingWrites \o <<jsonOutput>>
      ]_vars

CopyIsIndependentWitness ==
    /\ Len(pendingWrites) = 1
    /\ pendingWrites[1] # jsonOutput
    /\ clipboard # <<>>
    /\ clipboard # pendingWrites[1]
    /\ copyBtnText = "Copied!"

\* C10: once every clipboard completion and every restore timer has run, the
\* copy button shows the label it had before the first copy click.
LabelIsRestored ==
    (pendingWrites = <<>> /\ timers = <<>>) => copyBtnText = InitialLabel

====
